---- MODULE Spec2Model ----
(***************************************************************************)
(* A model of the getter of ctalladen78/services (package get):            *)
(*   Getter.Get, Getter.download, Getter.downloadPackage and WithCancel.   *)
(*                                                                         *)
(* Import paths and directories are sequences of path segments:            *)
(* "cy/a" is <<"cy", "a">>, the empty string is <<>>.  A repository URL is *)
(* <<scheme, host>>.  The package loader, the repository backend, the      *)
(* vendoring resolver and the session's filesystem are not part of the     *)
(* two source files; they are modelled from their interface (section 6 of  *)
(* the specification) over a small fixed universe of packages.             *)
(***************************************************************************)
EXTENDS Integers, Sequences, FiniteSets, TLC

\* ------------------------------------------------------------------ bounds

\* Get invocations made on one Getter in one behaviour.
MaxCalls == 3
\* Threads of control that may call Get on the shared Getter.
NThreads == 2
\* download invocations one goroutine's stack can hold, nested.
MaxDepth == 6
\* Steps the operation f given to WithCancel takes before it completes.
FSteps == 2
\* WithCancel invocations (each with its own context and operation).
NRunners == 2

Threads == 1..NThreads

\* ------------------------------------------------------- generic helpers

IsPrefix(a, b) == Len(a) <= Len(b) /\ SubSeq(b, 1, Len(a)) = a

Last(s) == s[Len(s)]

Front(s) == SubSeq(s, 1, Len(s) - 1)

SetMax(S) == CHOOSE x \in S : \A y \in S : y <= x

Range(s) == {s[i] : i \in 1..Len(s)}

\* ------------------------------------------------------ the values of Go

\* error: nil, or a *PackageError / an error made by fmt.Errorf.
Nil == [nil |-> TRUE, Hard |-> FALSE, Err |-> <<>>, ImportStack |-> <<>>]

\* fmt.Errorf(...): a plain error with a message.
Errorf(msg) == [nil |-> FALSE, Hard |-> FALSE, Err |-> msg, ImportStack |-> <<>>]

\* *repoRoot: nil, or a resolved repository root.
NilRoot == [nil |-> TRUE, root |-> <<>>, repo |-> <<>>, dir |-> <<>>, exists |-> FALSE]

\* *Package (nil for the parent of the root package).
NilPkg ==
    [nil |-> TRUE, ImportPath |-> <<>>, Dir |-> <<>>, Standard |-> FALSE,
     Imports |-> <<>>, BuildImports |-> <<>>, Root |-> <<>>, SrcRoot |-> <<>>,
     PkgRoot |-> <<>>, Error |-> Nil]

\* ------------------------------------------------- the package universe

App  == <<"app">>
DepA == <<"da">>
DepB == <<"db">>
DepC == <<"dc">>
Fmt  == <<"fmt">>
CyA  == <<"cy", "a">>
CyB  == <<"cy", "b">>
Vd   == <<"vd">>
VdX  == <<"vd", "vendor", "x">>
Cg   == <<"cg">>
PseudoC == <<"C">>
Lf   == <<"lf">>
Tx   == <<"tx">>
CgTx == <<"cg", "vendor", "tx">>
So   == <<"so">>
Bad  == <<"bad">>
Nr   == <<"nr">>
Loc  == <<"loc">>
Ins  == <<"ins">>
Occ  == <<"occ">>

\* The environments a Getter may run in; one is chosen when it is constructed.
WorldIds == {"deps", "cycle", "odd", "local", "nogopath", "gorootpath", "gorootlike"}

\* The root paths a caller passes to Get in each environment.  A path that
\* starts with "." is a spelling relative to the source root.
GetPaths(w) ==
    CASE w = "deps"  -> {App, DepB, <<".">> \o App}
      [] w = "cycle" -> {CyA, CyB, <<".">> \o CyA}
      [] w = "odd"   -> {Vd, Cg, So, Bad, Nr}
      [] w = "local" -> {Loc, Ins, Occ}
      [] OTHER       -> {DepA}

\* Packages of the standard distribution.
StdPaths == {Fmt}

\* Import paths the loader rejects outright (a hard error).
HardPaths == {Bad}

\* Packages that load with a soft error even when their directory exists.
SoftPaths == {So, Loc}

\* Imports of a package, as the loader reports them once the package is on disk.
WorldImports(c) ==
    CASE c = App  -> <<DepA, DepB, Fmt>>
      [] c = DepB -> <<DepC>>
      [] c = DepC -> <<DepA>>
      [] c = CyA  -> <<CyB>>
      [] c = CyB  -> <<CyA>>
      [] c = Vd   -> <<VdX>>
      [] c = Cg   -> <<PseudoC, Lf, Tx>>
      [] c = So   -> <<Lf>>
      [] c = Loc  -> <<Ins>>
      [] OTHER    -> <<>>

\* The raw build-declared import list; Imports may go beyond it (test imports).
WorldBuildImports(c) ==
    CASE c = Cg -> <<PseudoC, Lf>>
      [] OTHER  -> WorldImports(c)

\* Directories that are vendored copies inside a package.
WorldVendored == {CgTx}

\* Repository roots the backend can resolve from an import path.
KnownRoots == {<<"app">>, <<"da">>, <<"db">>, <<"dc">>, <<"cy">>, <<"vd">>, <<"cg">>,
               <<"lf">>, <<"tx">>, <<"so">>, <<"loc">>, <<"ins">>, <<"occ">>}

\* Repository roots served over a transport that is not secure.
InsecureRoots == {<<"ins">>}

RepoURL(root) == <<IF root \in InsecureRoots THEN "http" ELSE "https", root[1]>>

\* ------------------------------------------ the build environment, the disk

GOROOT == <<"goroot">>

\* filepath.SplitList(g.buildContext.GOPATH)
GOPATH(w) ==
    CASE w = "nogopath"   -> <<>>
      [] w = "gorootpath" -> <<GOROOT>>
      [] w = "gorootlike" -> << <<"gr2">> >>
      [] OTHER            -> << <<"gp">> >>

\* Whether <list[0]>/src/cmd/go/alldocs.go exists in the session's filesystem.
HasAllDocs(w) == w = "gorootlike"

\* Whether the session has a progress sink (g.send != nil).
HasSend(w) == w # "cycle"

\* Checkouts present before the Getter runs.
InitDisk(w) == IF w = "local" THEN {<<"gp", "src">> \o Loc} ELSE {}

\* Plain directories present before the Getter runs.
InitDirs(w) == IF w = "local" THEN {<<"gp", "src">> \o Occ} ELSE {}

\* ------------------------------------------------------------ the state

VARIABLES
    world,              \* the environment of this Getter (fixed at construction)
    packageCache,       \* g.packageCache: import path -> *Package
    downloadCache,      \* g.downloadCache: the import paths mapped to true
    downloadRootCache,  \* g.downloadRootCache: root dir -> *repoRoot
    repoPackages,       \* g.repoPackages: import path -> *repoRoot
    disk,               \* the checkouts in the session's GOPATH filesystem
    dirs,               \* the plain directories in the session's GOPATH filesystem
    hints,              \* what the cache request last got by SetHints
    args,               \* per thread: the arguments of its current or last Get
    phase,              \* per thread: "idle", "walk" (in download) or "hints"
    frames,             \* per thread: the call stack of download invocations
    stk,                \* per thread: Get's ImportStack
    result,             \* per thread: how its last Get ended
    log,                \* per thread: what its current or last Get did, in order
    createCount,        \* per root dir: calls of root.create so far
    guardPass,          \* per import path: non-single walks that passed the downloadCache guard
    fetchCount,         \* per import path: downloadPackage calls made by non-single walks
    skipCount,          \* per import path: non-single walks past the guard that did not fetch
    spellings,          \* per import path: the requested paths non-single walks resolved to it
    sent,               \* per repository root: Downloading messages sent so far
    ncalls,             \* Get invocations so far
    wcPc,               \* per WithCancel call: the caller's position
    wcF,                \* per WithCancel call: steps its operation f has taken
    wcFinished,         \* per WithCancel call: whether the channel finished is closed
    wcDone,             \* per WithCancel call: whether ctx.Done() is closed
    wcFirst,            \* per WithCancel call: which of the two events came first
    wcAtSelect          \* per WithCancel call: what was ready when select chose

getterVars ==
    <<world, packageCache, downloadCache, downloadRootCache, repoPackages, disk, dirs,
      hints, args, phase, frames, stk, result, log, createCount, guardPass, fetchCount,
      skipCount, spellings, sent, ncalls>>

cancelVars == <<wcPc, wcF, wcFinished, wcDone, wcFirst, wcAtSelect>>

vars == <<getterVars, cancelVars>>

\* ------------------------------------- collaborators outside the two files

\* The canonical import path of a requested spelling: a leading "." is a
\* spelling relative to the source root.
Canon(path) == IF Len(path) > 1 /\ path[1] = "." THEN Tail(path) ELSE path

\* The source root of the first workspace, <<>> when no workspace is configured.
WorkspaceSrc(w) == IF GOPATH(w) = <<>> THEN <<>> ELSE GOPATH(w)[1] \o <<"src">>

\* Whether package c has a directory: a checkout on disk contains it.
OnDisk(w, dk, c) ==
    /\ WorkspaceSrc(w) # <<>>
    /\ \E d \in dk : IsPrefix(d, WorkspaceSrc(w) \o c) /\ Len(d) > Len(WorkspaceSrc(w))

\* What the loader makes of canonical path c when it is not in its cache.
FreshPackage(w, dk, c, st) ==
    IF c \in StdPaths THEN
        [NilPkg EXCEPT !.nil = FALSE, !.ImportPath = c, !.Standard = TRUE,
                       !.Dir = GOROOT \o <<"src">> \o c, !.Root = GOROOT,
                       !.SrcRoot = GOROOT \o <<"src">>, !.PkgRoot = GOROOT \o <<"pkg">>]
    ELSE IF c \in HardPaths THEN
        [NilPkg EXCEPT !.nil = FALSE, !.ImportPath = c,
                       !.Error = [nil |-> FALSE, Hard |-> TRUE,
                                  Err |-> <<"malformed import path">>, ImportStack |-> st]]
    ELSE IF OnDisk(w, dk, c) THEN
        [NilPkg EXCEPT !.nil = FALSE, !.ImportPath = c,
                       !.Dir = WorkspaceSrc(w) \o c, !.Root = GOPATH(w)[1],
                       !.SrcRoot = WorkspaceSrc(w), !.PkgRoot = GOPATH(w)[1] \o <<"pkg">>,
                       !.Imports = WorldImports(c), !.BuildImports = WorldBuildImports(c),
                       !.Error = IF c \in SoftPaths
                                 THEN [nil |-> FALSE, Hard |-> FALSE,
                                       Err |-> <<"no buildable source files">>,
                                       ImportStack |-> st]
                                 ELSE Nil]
    ELSE
        [NilPkg EXCEPT !.nil = FALSE, !.ImportPath = c,
                       !.Error = [nil |-> FALSE, Hard |-> FALSE,
                                  Err |-> <<"cannot find package">>, ImportStack |-> st]]

\* g.LoadImport(ctx, path, srcDir, parent, stk, useVendor): the package of the
\* canonical path, from the package cache when it is there; p is the package
\* and cache the package cache afterwards.
LoadImport(w, dk, cache, path, srcDir, parent, st, useVendor) ==
    LET c == Canon(path) IN
    IF c \in DOMAIN cache
    THEN [p |-> cache[c], cache |-> cache]
    ELSE LET p == FreshPackage(w, dk, c, st)
         IN [p |-> p, cache |-> (c :> p) @@ cache]

\* g.ClearPackageCachePartial(paths): drops the cache entries of paths.
ClearPackageCachePartial(cache, paths) ==
    [c \in DOMAIN cache \ paths |-> cache[c]]

\* g.vcsFromDir(dir, srcRoot): the checkout that contains dir, found by
\* scanning upward from dir to srcRoot.
vcsFromDir(dk, dir, srcRoot) ==
    IF dir = <<>> \/ ~IsPrefix(srcRoot, dir) \/ Len(dir) <= Len(srcRoot)
    THEN [root |-> NilRoot, err |-> Errorf(<<"directory is outside source root">>)]
    ELSE LET found == {d \in dk : IsPrefix(d, dir) /\ IsPrefix(srcRoot, d)
                                  /\ Len(d) > Len(srcRoot)}
         IN IF found = {}
            THEN [root |-> NilRoot,
                  err |-> Errorf(<<"directory is not using a known version control system">>)]
            ELSE LET d == CHOOSE x \in found : \A y \in found : Len(y) <= Len(x)
                     r == SubSeq(d, Len(srcRoot) + 1, Len(d))
                 IN [root |-> [nil |-> FALSE, root |-> r, repo |-> RepoURL(r),
                               dir |-> d, exists |-> TRUE],
                     err |-> Nil]

\* g.repoRootForImportPath(ctx, importPath, insecure): the repository root
\* that owns the import path, from the path alone.
repoRootForImportPath(importPath, insecure) ==
    IF importPath # <<>> /\ <<importPath[1]>> \in KnownRoots
    THEN [root |-> [nil |-> FALSE, root |-> <<importPath[1]>>,
                    repo |-> RepoURL(<<importPath[1]>>), dir |-> <<>>, exists |-> FALSE],
          err |-> Nil]
    ELSE [root |-> NilRoot, err |-> Errorf(<<"unrecognized import path">>)]

SecureSchemes == {"https", "ssh", "git+ssh", "bzr+ssh", "svn+ssh"}

\* isSecure(repo): whether the URL's scheme is a secure one.
isSecure(repo) == repo # <<>> /\ repo[1] \in SecureSchemes

\* FindVendor(path): the position of the last "vendor" element that is
\* followed by another element ("/vendor/" inside the path, or "vendor/" at
\* its start); index counts the elements before it.
FindVendor(path) ==
    LET inner == {i \in 2..(Len(path) - 1) : path[i] = "vendor"} IN
    IF inner # {} THEN [index |-> SetMax(inner) - 1, ok |-> TRUE]
    ELSE IF Len(path) > 1 /\ path[1] = "vendor" THEN [index |-> 0, ok |-> TRUE]
    ELSE [index |-> 0, ok |-> FALSE]

\* g.VendoredImportPath(parent, path): path as found in a vendor directory of
\* parent, or path itself.
VendoredImportPath(parent, path) ==
    IF parent.Dir # <<>> /\ (parent.ImportPath \o <<"vendor">> \o path) \in WorldVendored
    THEN parent.ImportPath \o <<"vendor">> \o path
    ELSE path

\* fs.Stat(dir) succeeds: the directory, or something below it, exists.
Stat(dk, ds, dir) == \E d \in dk \cup ds : IsPrefix(dir, d)

\* ----------------------------------------------------- maps and the log

EmptyMap == [x \in {} |-> TRUE]

Count(f, k) == IF k \in DOMAIN f THEN f[k] ELSE 0

Bump(f, k) == (k :> (Count(f, k) + 1)) @@ f

Put(f, k, v) == (k :> v) @@ f

\* How a Get ended: kind is "none" (not yet), "ok", "err", "panic" or "fatal"
\* (the process ended).
Outcome(kind, err, why) == [kind |-> kind, err |-> err, why |-> why]

\* The state one thread's step reads and writes, as one record.
Cur(t) ==
    [packageCache |-> packageCache, downloadCache |-> downloadCache,
     downloadRootCache |-> downloadRootCache, repoPackages |-> repoPackages,
     disk |-> disk, dirs |-> dirs, hints |-> hints, phase |-> phase[t],
     frames |-> frames[t], stk |-> stk[t], result |-> result[t], log |-> log[t],
     createCount |-> createCount, guardPass |-> guardPass, fetchCount |-> fetchCount,
     skipCount |-> skipCount, spellings |-> spellings, sent |-> sent]

Commit(t, s) ==
    /\ packageCache' = s.packageCache
    /\ downloadCache' = s.downloadCache
    /\ downloadRootCache' = s.downloadRootCache
    /\ repoPackages' = s.repoPackages
    /\ disk' = s.disk
    /\ dirs' = s.dirs
    /\ hints' = s.hints
    /\ phase' = [phase EXCEPT ![t] = s.phase]
    /\ frames' = [frames EXCEPT ![t] = s.frames]
    /\ stk' = [stk EXCEPT ![t] = s.stk]
    /\ result' = [result EXCEPT ![t] = s.result]
    /\ log' = [log EXCEPT ![t] = s.log]
    /\ createCount' = s.createCount
    /\ guardPass' = s.guardPass
    /\ fetchCount' = s.fetchCount
    /\ skipCount' = s.skipCount
    /\ spellings' = s.spellings
    /\ sent' = s.sent
    /\ UNCHANGED <<world, args, ncalls, cancelVars>>

Logged(s, e) == [s EXCEPT !.log = Append(@, e)]

\* ------------------------------------------------------------ ImportStack

Push(st, path) == Append(st, path)

Pop(st) == Front(st)

Copy(st) == st

\* ------------------------------------------------- download: the frames

\* One invocation of download: its arguments, its locals and its position.
NewFrame(path, parent, single, st) ==
    [path |-> path, parent |-> parent, single |-> single, pc |-> "load",
     p |-> NilPkg, pkgs |-> <<>>, k |-> 1, i |-> 1, root |-> NilRoot, entry |-> st]

Top(s) == Last(s.frames)

SetTop(s, f) == [s EXCEPT !.frames = [@ EXCEPT ![Len(@)] = f]]

\* A panic unwinds the whole Get: nothing in download or Get recovers.
Panic(s, why) ==
    [Logged(s, <<"panic", why>>) EXCEPT
        !.frames = <<>>, !.phase = "idle", !.result = Outcome("panic", Nil, why)]

\* download returns err (Nil for nil).  The caller is Get (the frame was the
\* only one) or the import loop of the frame below, which returns a non-nil
\* error unchanged and otherwise goes on to its next import.
\* A slip: the import loop goes on after a recursive call returned an error.
PropagatesNever(err) == FALSE

\* The import loop returns the error of a recursive call that is not nil.
Propagates(err) == ~err.nil

RECURSIVE Return(_, _, _)
Return(s, a, err) ==
    LET f == Top(s)
        rest == Front(s.frames)
        s1 == Logged(s, <<"return", f.path, f.entry, s.stk, err.nil, err>>)
    IN  IF rest = <<>> THEN
            IF ~err.nil
            THEN [s1 EXCEPT !.frames = <<>>, !.phase = "idle",
                            !.result = Outcome("err", err, "")]
            ELSE IF a.single
            THEN [s1 EXCEPT !.frames = <<>>, !.phase = "idle",
                            !.result = Outcome("ok", Nil, "")]
            ELSE [s1 EXCEPT !.frames = <<>>, !.phase = "hints"]
        ELSE IF Propagates(err)
        THEN Return([s1 EXCEPT !.frames = rest], a, err)
        ELSE [s1 EXCEPT !.frames = [rest EXCEPT ![Len(rest)].i = @ + 1]]

\* load1: the loader call of download, relative to the parent when there is one.
load1(s, f, path, useVendor) ==
    LET ld == IF f.parent.nil
              THEN LoadImport(world, s.disk, s.packageCache, path, <<"/">>, NilPkg,
                              s.stk, FALSE)
              ELSE LoadImport(world, s.disk, s.packageCache, path, f.parent.Dir,
                              f.parent, s.stk, useVendor)
    IN  [p |-> ld.p,
         s |-> Logged([s EXCEPT !.packageCache = ld.cache],
                      <<"load", path, f.parent.ImportPath, ld.p.ImportPath>>)]

\* The package error that aborts download right after the first load.
HardStop(p) == ~p.Error.nil /\ p.Error.Hard

\* A slip: the cache key is the path as the caller spelled it.
CacheKeyRequested(path, p) == path

\* The key of downloadCache for a walk that asked for path and resolved p.
CacheKey(path, p) == p.ImportPath

\* A slip: the guard never stops a walk.
AlreadyDownloadedNever(s, path) == FALSE

\* The downloadCache guard.
AlreadyDownloaded(s, path) == path \in s.downloadCache

\* A slip: a single-mode walk records its path too.
RecordsDownloadAlways(single) == TRUE

\* Whether a walk records its path in downloadCache.
RecordsDownload(single) == ~single

\* Download if the package is missing, or update if -u is used.
NeedsFetch(p, update) == p.Dir = <<>> \/ update

\* The package error that aborts download after the re-load that follows a fetch.
ReloadStop(p) == ~p.Error.nil

\* A slip: single mode goes on to the dependencies.
StopsAtSingleNever(single) == FALSE

\* Single mode stops before the dependencies.
StopsAtSingle(single) == single

\* download, from its entry to the downloadCache guard.
downloadEnter(s, a) ==
    LET f == Top(s)
        ld == load1(Logged(s, <<"walk", f.path, f.parent.ImportPath, f.single>>),
                    f, f.path, FALSE)
        p == ld.p
        path == CacheKey(f.path, p)
        s0 == IF f.single THEN ld.s
              ELSE [ld.s EXCEPT !.spellings =
                        Put(@, p.ImportPath,
                            (IF p.ImportPath \in DOMAIN @ THEN @[p.ImportPath] ELSE {})
                                \cup {f.path})]
    IN  IF HardStop(p) THEN Return(Logged(s0, <<"loadabort", f.path, p.Error.Hard>>), a, p.Error)
        ELSE IF p.Standard THEN Return(s0, a, Nil)
        ELSE IF AlreadyDownloaded(s0, path) THEN Return(s0, a, Nil)
        ELSE LET s1 == IF f.single THEN s0
                       ELSE [s0 EXCEPT !.guardPass = Bump(@, p.ImportPath)]
             IN SetTop(Logged(s1, <<"guard", path, f.single>>),
                       [f EXCEPT !.path = path, !.p = p, !.pc = "mark"])

\* download, from recording the path to the choice between fetching and not.
downloadMark(s, a) ==
    LET f == Top(s)
        s0 == Logged(s, <<"mark", f.path, NeedsFetch(f.p, a.update)>>)
        s1 == IF RecordsDownload(f.single)
              THEN [s0 EXCEPT !.downloadCache = @ \cup {f.path}]
              ELSE s0
        f1 == [f EXCEPT !.pkgs = <<f.p>>]
    IN  IF NeedsFetch(f.p, a.update)
        THEN SetTop(s1, [f1 EXCEPT !.pc = "fetch"])
        ELSE LET vr == vcsFromDir(s1.disk, f.p.Dir, f.p.SrcRoot)
                 s1b == IF f.single THEN s1
                        ELSE [s1 EXCEPT !.skipCount = Bump(@, f.p.ImportPath)]
                 s2 == IF ~vr.root.nil
                       THEN [s1b EXCEPT !.repoPackages = Put(@, f.p.ImportPath, vr.root)]
                       ELSE s1b
             IN IF StopsAtSingle(f.single)
                THEN Return(SetTop(s2, f1), a, Nil)
                ELSE SetTop(s2, [f1 EXCEPT !.pc = "imports", !.k = 1, !.i = 1])

\* ------------------------------------------------------ downloadPackage

\* A slip: the security gate lets every repository through.
InsecureNeverRejected(root, insecure) == FALSE

\* The security gate: a repository that is not secure, and insecure not allowed.
InsecureRejected(root, insecure) == ~isSecure(root.repo) /\ ~insecure

\* A slip: a root dir is never taken as handled.
RootNeverHandled(s, dir) == FALSE

\* "If we've considered this repository already, don't do it again."
RootHandled(s, dir) == dir \in DOMAIN s.downloadRootCache

\* The checks on the first workspace root when the package has no source root.
WorkspaceError(w) ==
    LET list == GOPATH(w) IN
    IF Len(list) = 0 THEN Errorf(<<"cannot download, $GOPATH not set">>)
    ELSE IF list[1] = GOROOT
    THEN Errorf(<<"cannot download, $GOPATH must not be set to $GOROOT">>)
    ELSE IF HasAllDocs(w)
    THEN Errorf(<<"cannot download, is a GOROOT, not a GOPATH", list[1]>>)
    ELSE Nil

\* The writes of downloadPackage to the package p points to: p is the cached
\* object, so the cache entry changes with it.
WithPackage(s, p) ==
    IF p.ImportPath \in DOMAIN s.packageCache
    THEN [s EXCEPT !.packageCache = Put(@, p.ImportPath, p)]
    ELSE s

\* downloadPackage up to its downloadRootCache guard.  st is "err" (it
\* returned err), "handled" (the guard returned nil) or "go" (it goes on to
\* fetch root); p is the package as it left it.
downloadPackageHead(s, p, insecure) ==
    LET rr == IF p.SrcRoot # <<>>
              THEN vcsFromDir(s.disk, p.Dir, p.SrcRoot)
              ELSE repoRootForImportPath(p.ImportPath, insecure)
        fail(e, sx, px) == [st |-> "err", err |-> e, s |-> sx, p |-> px, root |-> rr.root]
    IN  IF ~rr.err.nil THEN fail(rr.err, s, p)
        ELSE IF InsecureRejected(rr.root, insecure)
        THEN fail(Errorf(<<"cannot download, uses insecure protocol", rr.root.repo>>), s, p)
        ELSE IF p.SrcRoot = <<>> /\ ~WorkspaceError(world).nil
        THEN fail(WorkspaceError(world), s, p)
        ELSE
        LET list == GOPATH(world)
            p1 == IF p.SrcRoot = <<>>
                  THEN [p EXCEPT !.Root = list[1], !.SrcRoot = list[1] \o <<"src">>,
                                 !.PkgRoot = list[1] \o <<"pkg">>]
                  ELSE p
            s1 == WithPackage(s, p1)
            dir == p1.SrcRoot \o rr.root.root
        IN  IF rr.root.dir # <<>> /\ rr.root.dir # dir
            THEN fail(Errorf(<<"path disagreement", dir, rr.root.dir>>), s1, p1)
            ELSE
            LET root == [rr.root EXCEPT !.dir = dir]
                s2 == [s1 EXCEPT !.repoPackages = Put(@, p1.ImportPath, root)]
            IN  IF RootHandled(s2, root.dir)
                THEN [st |-> "handled", err |-> Nil, s |-> s2, p |-> p1, root |-> root]
                ELSE [st |-> "go", err |-> Nil, s |-> s2, p |-> p1, root |-> root]

\* downloadPackage from recording the root dir to its end.  outcome is what the
\* filesystem and the repository backend do: "mkdirfail", "createfail" or "ok".
\* st is "err", "panic" or "ok".
downloadPackageTail(s, root, outcome) ==
    LET s1 == [s EXCEPT !.downloadRootCache = Put(@, root.dir, root)] IN
    IF root.exists THEN [st |-> "panic", err |-> Nil, s |-> s1]
    ELSE IF Stat(s1.disk, s1.dirs, root.dir)
    THEN [st |-> "err", err |-> Errorf(<<"exists but repo does not", root.dir>>), s |-> s1]
    ELSE IF outcome = "mkdirfail"
    THEN [st |-> "err", err |-> Errorf(<<"mkdir failed">>),
          s |-> Logged(s1, <<"mkdir", Front(root.dir), FALSE>>)]
    ELSE
    LET s2 == Logged([s1 EXCEPT !.dirs = @ \cup {Front(root.dir)}],
                     <<"mkdir", Front(root.dir), TRUE>>)
        s3 == IF HasSend(world)
              THEN Logged([s2 EXCEPT !.sent = Bump(@, root.root)], <<"send", root.root>>)
              ELSE s2
        s4 == Logged([s3 EXCEPT !.createCount = Bump(@, root.dir)],
                     <<"create", root.dir, outcome = "ok">>)
    IN  IF outcome = "createfail"
        THEN [st |-> "err", err |-> Errorf(<<"create failed">>), s |-> s4]
        ELSE [st |-> "ok", err |-> Nil, s |-> [s4 EXCEPT !.disk = @ \cup {root.dir}]]

\* ------------------------------------------- download: fetch and imports

\* A slip: the whole package cache is cleared after a fetch.
ClearedPathsAll(s, path) == DOMAIN s.packageCache

\* The package cache entries download clears after a successful fetch of path.
ClearedPaths(s, path) == {path}

\* A slip: the error path of the fetch returns without the pop.
PopAfterErrorMissing(st) == st

\* The ImportStack after the error path of the fetch has popped the path.
PopAfterError(st) == Pop(st)

\* download after downloadPackage returned err: the error path, or the pop
\* and the clearing of the package cache entry of the path.
afterDownloadPackage(s, a, err) ==
    LET f == Top(s) IN
    IF ~err.nil
    THEN LET perr == [nil |-> FALSE, Hard |-> FALSE, Err |-> err.Err,
                      ImportStack |-> Copy(s.stk)]
         IN Return([s EXCEPT !.stk = PopAfterError(@)], a, perr)
    ELSE SetTop(Logged([s EXCEPT !.stk = Pop(@),
                                 !.packageCache =
                                     ClearPackageCachePartial(@, ClearedPaths(s, f.path))],
                       <<"clear", f.path>>),
                [f EXCEPT !.pkgs = <<>>, !.pc = "reload"])

\* download after the clearing: the re-load and the single-mode return.
downloadReload(s, a) ==
    LET f == Top(s)
        ld == load1(s, f, f.path, FALSE)
    IN  IF ReloadStop(ld.p)
        THEN Return(Logged(ld.s, <<"loadabort", f.path, ld.p.Error.Hard>>), a, ld.p.Error)
        ELSE LET f1 == [f EXCEPT !.pkgs = <<ld.p>>] IN
             IF StopsAtSingle(f.single)
             THEN Return(SetTop(ld.s, f1), a, Nil)
             ELSE SetTop(ld.s, [f1 EXCEPT !.pc = "imports", !.k = 1, !.i = 1])

\* download: the push and downloadPackage up to its downloadRootCache guard.
downloadFetch(s, a) ==
    LET f == Top(s)
        s0 == Logged([s EXCEPT !.stk = Push(@, f.path),
                               !.fetchCount = IF f.single THEN @
                                               ELSE Bump(@, f.p.ImportPath)],
                     <<"fetch", f.path, f.single>>)
        h == downloadPackageHead(s0, f.p, a.insecure)
        s1 == SetTop(h.s, [f EXCEPT !.p = h.p, !.root = h.root])
    IN  IF h.st = "err" THEN afterDownloadPackage(Logged(s1, <<"fetcherr", f.path, h.err.Err>>),
                                                  a, h.err)
        ELSE IF h.st = "handled" THEN afterDownloadPackage(s1, a, Nil)
        ELSE SetTop(h.s, [f EXCEPT !.p = h.p, !.root = h.root, !.pc = "create"])

\* download: the rest of downloadPackage and what follows it.
downloadCreate(s, a, outcome) ==
    LET f == Top(s)
        r == downloadPackageTail(s, f.root, outcome)
    IN  IF r.st = "panic" THEN Panic(r.s, "root exists")
        ELSE IF r.st = "err"
        THEN afterDownloadPackage(Logged(r.s, <<"fetcherr", f.path, r.err.Err>>), a, r.err)
        ELSE afterDownloadPackage(r.s, a, Nil)

\* The import as declared, for the vendor check.
OrigImport(p, i, path) == IF i < Len(p.BuildImports) THEN p.BuildImports[i + 1] ELSE path

\* Whether import number i (from 0) is a test import, to be looked up in vendor.
IsTestImport(p, i) == i >= Len(p.Imports)

\* The error for an import that names a vendor path; j is FindVendor's index.
VendorError(st, path, j) ==
    [nil |-> FALSE, Hard |-> FALSE,
     Err |-> <<"must be imported as", SubSeq(path, j + 2, Len(path))>>,
     ImportStack |-> Copy(st)]

\* download: one turn of the loop over the imports of pkgs.
downloadImport(s, a) ==
    LET f == Top(s) IN
    IF f.k > Len(f.pkgs) THEN Return(s, a, Nil)
    ELSE
    LET p == f.pkgs[f.k]
        imports == p.Imports
        i == f.i - 1
    IN  IF f.i > Len(imports) THEN
            IF f.k + 1 > Len(f.pkgs) THEN Return(s, a, Nil)
            ELSE SetTop(Logged(s, <<"nextpkg", f.k + 1>>), [f EXCEPT !.k = @ + 1, !.i = 1])
        ELSE
        LET path == imports[f.i]
            orig == OrigImport(p, i, path)
            fv == FindVendor(orig)
        IN  IF path = PseudoC
            THEN SetTop(Logged(s, <<"skip", path, p.ImportPath>>), [f EXCEPT !.i = @ + 1])
            ELSE IF fv.ok THEN
                IF fv.index + 1 > Len(path)
                THEN Panic([s EXCEPT !.stk = Push(@, path)], "slice bounds out of range")
                ELSE LET err == VendorError(Push(s.stk, path), path, fv.index)
                     IN Return(Logged(s, <<"reject", path, err>>), a, err)
            ELSE LET path2 == IF IsTestImport(p, i) THEN VendoredImportPath(p, path)
                              ELSE path
                 IN IF Len(s.frames) >= MaxDepth
                    THEN Panic(s, "goroutine stack exceeds limit")
                    ELSE [Logged(s, <<"import", path, path2, p.ImportPath, i>>) EXCEPT
                             !.frames = Append(@, NewFrame(path2, p, FALSE, s.stk))]

\* ------------------------------------------------------ Get: the hints

\* processPath of Get, over the package cache and repoPackages of state s.
\* acc carries the hints map built so far and the paths whose entry was
\* written, in order; the result adds the urls returned.  st is "ok", or
\* what ends the pass: "nil dereference" (p.Standard of a nil p) or
\* "stack overflow" (processPath re-entered for a path it is still
\* processing, which recurs without end).
\* A slip: the path's own repository is left out of its urls.
OwnRepoNone(s, path, p) == {}

\* The url processPath adds for the path itself: from repoPackages, else
\* from the package's directory, ignoring the error.
OwnRepo(s, path, p) ==
    IF path \in DOMAIN s.repoPackages
    THEN {s.repoPackages[path].repo}
    ELSE LET vr == vcsFromDir(s.disk, p.Dir, p.SrcRoot)
         IN IF ~vr.root.nil THEN {vr.root.repo} ELSE {}

RECURSIVE processPath(_, _, _, _), processImports(_, _, _, _, _, _)
processPath(s, path, active, acc) ==
    IF acc.st # "ok" THEN acc
    ELSE IF path \in active THEN [acc EXCEPT !.st = "stack overflow"]
    ELSE IF path \notin DOMAIN s.packageCache THEN [acc EXCEPT !.st = "nil dereference"]
    ELSE
    LET p == s.packageCache[path] IN
    IF p.Standard THEN [acc EXCEPT !.urls = {}]
    ELSE
    LET r == processImports(s, p.Imports, 1, active \cup {path}, acc, {}) IN
    IF r.st # "ok" THEN r
    ELSE
    LET urls == r.urls \cup OwnRepo(s, path, p)
    IN  [r EXCEPT !.urls = urls, !.hints = Put(@, path, urls), !.calls = Append(@, path)]

processImports(s, imps, n, active, acc, urls) ==
    IF n > Len(imps) THEN [acc EXCEPT !.urls = urls]
    ELSE LET r == processPath(s, imps[n], active, acc)
         IN IF r.st # "ok" THEN r
            ELSE processImports(s, imps, n + 1, active, r, urls \cup r.urls)

\* Get after download returned nil in non-single mode: the hint pass and SetHints.
getHints(s, a) ==
    LET s0 == Logged(s, <<"hintroot", a.path>>)
        r == processPath(s0, a.path, {},
                         [st |-> "ok", urls |-> {}, hints |-> EmptyMap, calls |-> <<>>])
    IN  IF r.st = "ok"
        THEN [Logged(s0, <<"sethints", r.calls>>) EXCEPT
                 !.hints = r.hints, !.phase = "idle", !.result = Outcome("ok", Nil, "")]
        ELSE Panic(s0, r.st)

\* ---------------------------------------------------------- WithCancel

Runners == 1..NRunners

\* A slip: the two return values of the select are swapped.
SelectReturnSwapped(case) == case = "finished"

\* The value WithCancel returns for the case its select chose.
SelectReturn(case) == case = "done"

\* WithCancel makes the channel and starts the goroutine.
WithCancelStart(r) ==
    /\ wcPc[r] = "idle"
    /\ wcPc' = [wcPc EXCEPT ![r] = "select"]
    /\ UNCHANGED <<wcF, wcFinished, wcDone, wcFirst, wcAtSelect, getterVars>>

\* The goroutine: one step of f.
WithCancelF(r) ==
    /\ wcPc[r] # "idle"
    /\ wcF[r] < FSteps
    /\ wcF' = [wcF EXCEPT ![r] = @ + 1]
    /\ wcFirst' = [wcFirst EXCEPT ![r] = IF @ = "none" /\ wcF[r] + 1 = FSteps
                                         THEN "f" ELSE @]
    /\ UNCHANGED <<wcPc, wcFinished, wcDone, wcAtSelect, getterVars>>

\* The goroutine: close(finished), after f returned.
WithCancelClose(r) ==
    /\ wcPc[r] # "idle"
    /\ wcF[r] = FSteps
    /\ ~wcFinished[r]
    /\ wcFinished' = [wcFinished EXCEPT ![r] = TRUE]
    /\ UNCHANGED <<wcPc, wcF, wcDone, wcFirst, wcAtSelect, getterVars>>

\* Whoever holds the context cancels it; this may happen before WithCancel is called.
CancelCtx(r) ==
    /\ ~wcDone[r]
    /\ wcDone' = [wcDone EXCEPT ![r] = TRUE]
    /\ wcFirst' = [wcFirst EXCEPT ![r] = IF @ = "none" THEN "cancel" ELSE @]
    /\ UNCHANGED <<wcPc, wcF, wcFinished, wcAtSelect, getterVars>>

\* The select of WithCancel: it blocks until a case is ready and takes one
\* of the ready cases, any of them when both are.
WithCancelSelect(r) ==
    /\ wcPc[r] = "select"
    /\ \E case \in {"finished", "done"} :
          /\ case = "finished" => wcFinished[r]
          /\ case = "done" => wcDone[r]
          /\ wcPc' = [wcPc EXCEPT ![r] = IF SelectReturn(case) THEN "true" ELSE "false"]
    /\ wcAtSelect' = [wcAtSelect EXCEPT ![r] = [finished |-> wcFinished[r],
                                                done |-> wcDone[r]]]
    /\ UNCHANGED <<wcF, wcFinished, wcDone, wcFirst, getterVars>>

\* ------------------------------------------------------------ the actions

Flags == BOOLEAN

NoArgs == [path |-> <<>>, update |-> FALSE, insecure |-> FALSE, single |-> FALSE]

\* Get is called: it makes the ImportStack and calls download for the root.
StartGet(t, path, update, insecure, single) ==
    /\ phase[t] = "idle"
    /\ ncalls < MaxCalls
    /\ ncalls' = ncalls + 1
    /\ args' = [args EXCEPT ![t] = [path |-> path, update |-> update,
                                    insecure |-> insecure, single |-> single]]
    /\ phase' = [phase EXCEPT ![t] = "walk"]
    /\ frames' = [frames EXCEPT ![t] = <<NewFrame(path, NilPkg, single, <<>>)>>]
    /\ stk' = [stk EXCEPT ![t] = <<>>]
    /\ result' = [result EXCEPT ![t] = Outcome("none", Nil, "")]
    /\ log' = [log EXCEPT ![t] = <<>>]
    /\ UNCHANGED <<world, packageCache, downloadCache, downloadRootCache, repoPackages,
                   disk, dirs, hints, createCount, guardPass, fetchCount, skipCount,
                   spellings, sent, cancelVars>>

\* A Get of a sequential series: no other Get is running.
Get(t) ==
    /\ \A u \in Threads : phase[u] = "idle"
    /\ \E path \in GetPaths(world), update \in Flags, insecure \in Flags, single \in Flags :
          StartGet(t, path, update, insecure, single)

\* A Get that may run beside another one.
ConcurrentGet(t) ==
    /\ result[t].kind = "none"
    /\ \E path \in GetPaths(world) : StartGet(t, path, FALSE, TRUE, FALSE)

At(t, pc) == phase[t] = "walk" /\ frames[t] # <<>> /\ Last(frames[t]).pc = pc

DownloadEnter(t) == At(t, "load") /\ Commit(t, downloadEnter(Cur(t), args[t]))

DownloadMark(t) == At(t, "mark") /\ Commit(t, downloadMark(Cur(t), args[t]))

DownloadFetch(t) == At(t, "fetch") /\ Commit(t, downloadFetch(Cur(t), args[t]))

DownloadCreate(t) ==
    /\ At(t, "create")
    /\ \E outcome \in {"mkdirfail", "createfail", "ok"} :
          Commit(t, downloadCreate(Cur(t), args[t], outcome))

DownloadReload(t) == At(t, "reload") /\ Commit(t, downloadReload(Cur(t), args[t]))

DownloadImport(t) == At(t, "imports") /\ Commit(t, downloadImport(Cur(t), args[t]))

GetHints(t) == phase[t] = "hints" /\ Commit(t, getHints(Cur(t), args[t]))

Walk(t) ==
    \/ DownloadEnter(t)
    \/ DownloadMark(t)
    \/ DownloadFetch(t)
    \/ DownloadCreate(t)
    \/ DownloadReload(t)
    \/ DownloadImport(t)
    \/ GetHints(t)

\* Where thread t is in Get: the position of its innermost download, "hints"
\* or "none".
Position(t) ==
    IF phase[t] = "hints" THEN "hints"
    ELSE IF phase[t] = "walk" /\ frames[t] # <<>> THEN Last(frames[t]).pc
    ELSE "none"

\* The maps of the Getter the step at a position writes, and those it reads.
\* None of them is accessed under a lock.
MapWrites(pos) ==
    CASE pos = "load"   -> {"packageCache"}
      [] pos = "mark"   -> {"downloadCache", "repoPackages"}
      [] pos = "fetch"  -> {"repoPackages", "packageCache"}
      [] pos = "create" -> {"downloadRootCache", "packageCache"}
      [] pos = "reload" -> {"packageCache"}
      [] OTHER          -> {}

MapReads(pos) ==
    CASE pos = "load"  -> {"packageCache", "downloadCache"}
      [] pos = "fetch" -> {"downloadRootCache"}
      [] pos = "reload" -> {"packageCache"}
      [] pos = "hints" -> {"packageCache", "repoPackages"}
      [] OTHER         -> {}

\* Two threads are about to access one map, one of them writing: the runtime
\* may end the process ("fatal error: concurrent map writes").
MapFault ==
    /\ \E t, u \in Threads :
          /\ t # u
          /\ MapWrites(Position(t)) \cap (MapWrites(Position(u)) \cup MapReads(Position(u))) # {}
    /\ phase' = [t \in Threads |-> "idle"]
    /\ frames' = [t \in Threads |-> <<>>]
    /\ result' = [t \in Threads |-> Outcome("fatal", Nil, "concurrent map access")]
    /\ UNCHANGED <<world, packageCache, downloadCache, downloadRootCache, repoPackages,
                   disk, dirs, hints, args, stk, log, createCount, guardPass, fetchCount,
                   skipCount, spellings, sent, ncalls, cancelVars>>

\* ----------------------------------------------------- the specifications

InitGetter(W) ==
    /\ world \in W
    /\ packageCache = EmptyMap
    /\ downloadCache = {}
    /\ downloadRootCache = EmptyMap
    /\ repoPackages = EmptyMap
    /\ disk = InitDisk(world)
    /\ dirs = InitDirs(world)
    /\ hints = EmptyMap
    /\ args = [t \in Threads |-> NoArgs]
    /\ phase = [t \in Threads |-> "idle"]
    /\ frames = [t \in Threads |-> <<>>]
    /\ stk = [t \in Threads |-> <<>>]
    /\ result = [t \in Threads |-> Outcome("none", Nil, "")]
    /\ log = [t \in Threads |-> <<>>]
    /\ createCount = EmptyMap
    /\ guardPass = EmptyMap
    /\ fetchCount = EmptyMap
    /\ skipCount = EmptyMap
    /\ spellings = EmptyMap
    /\ sent = EmptyMap
    /\ ncalls = 0

InitCancel ==
    /\ wcPc = [r \in Runners |-> "idle"]
    /\ wcF = [r \in Runners |-> 0]
    /\ wcFinished = [r \in Runners |-> FALSE]
    /\ wcDone = [r \in Runners |-> FALSE]
    /\ wcFirst = [r \in Runners |-> "none"]
    /\ wcAtSelect = [r \in Runners |-> [finished |-> FALSE, done |-> FALSE]]

Init == InitGetter(WorldIds) /\ InitCancel

\* A sequential series of Get calls on one Getter.
Next == Get(1) \/ Walk(1)

Spec == Init /\ [][Next]_vars

\* Get calls of several threads on one Getter, interleaved.
ConcInit == InitGetter({"cycle"}) /\ InitCancel

ConcNext == MapFault \/ \E t \in Threads : ConcurrentGet(t) \/ Walk(t)

ConcSpec == ConcInit /\ [][ConcNext]_vars

\* WithCancel calls, their operations and their contexts.
CancelInit == InitGetter({"deps"}) /\ InitCancel

CancelNext ==
    \E r \in Runners :
        \/ WithCancelStart(r)
        \/ WithCancelF(r)
        \/ WithCancelClose(r)
        \/ CancelCtx(r)
        \/ WithCancelSelect(r)

CancelSpec == CancelInit /\ [][CancelNext]_vars

\* ============================================================ the claims

\* The places in thread t's log where an event of the kind stands.
Events(t, kind) == {i \in 1..Len(log[t]) : log[t][i][1] = kind}

\* The root dir of the repository that owns import path c.
RootDirOf(c) == WorkspaceSrc(world) \o <<c[1]>>

\* ---------------------------------------------------------------- C1
\* C1: in a sequential series of Get calls on one Getter, root.create is
\* called at most once per local root dir, and the Downloading message is sent
\* at most once per root; a root dir that was created is in downloadRootCache.
C1_CreateOncePerRootDir ==
    /\ \A d \in DOMAIN createCount : createCount[d] <= 1 /\ d \in DOMAIN downloadRootCache
    /\ \A r \in DOMAIN sent : sent[r] <= 1

\* A Get that called downloadPackage for a package whose root dir an earlier
\* Get had created, made no create of its own and returned nil.
C1_Witness ==
    /\ phase[1] = "idle"
    /\ result[1].kind = "ok"
    /\ Events(1, "create") = {}
    /\ \E i \in Events(1, "fetch") : Count(createCount, RootDirOf(log[1][i][2])) = 1

\* ---------------------------------------------------------------- C2
\* C2: with Get calls running concurrently on one Getter, no two walks pass
\* the downloadCache guard for the same import path and root.create is called
\* at most once per root dir.
C2_GuardsExclusive ==
    /\ \A c \in DOMAIN guardPass : guardPass[c] <= 1
    /\ \A d \in DOMAIN createCount : createCount[d] <= 1

\* ---------------------------------------------------------------- C3
\* The download invocations of thread t that are past the downloadCache guard
\* are for pairwise different packages.
DistinctFrames(t) ==
    \A i, j \in 1..Len(frames[t]) :
        (i < j /\ frames[t][i].pc # "load" /\ frames[t][j].pc # "load")
            => frames[t][i].p.ImportPath # frames[t][j].p.ImportPath

\* C3: the walker terminates on every import graph, cyclic ones included:
\* every step of a walk extends the log of its Get (so, the reachable states
\* being finitely many, no walk runs for ever), the nested download
\* invocations past the guard are for different packages, the goroutine
\* stack never runs out, and in non-single mode every import path passes the
\* downloadCache guard at most once per Getter.
C3_WalkTerminates ==
    [][/\ \A c \in DOMAIN guardPass' : guardPass'[c] <= 1
       /\ DistinctFrames(1)'
       /\ result'[1].why # "goroutine stack exceeds limit"
       /\ (phase[1] = "walk" /\ phase'[1] = "walk") => Len(log'[1]) > Len(log[1])
      ]_vars

\* A non-single Get over the cycle cy/a <-> cy/b has ended: cy/a was walked
\* again as an import of cy/b, and each of the two passed the guard once.
C3_Witness ==
    /\ phase[1] # "walk"
    /\ ~args[1].single
    /\ \E i \in Events(1, "walk") : log[1][i][2] = CyA /\ log[1][i][3] = CyB
    /\ Count(guardPass, CyA) = 1
    /\ Count(guardPass, CyB) = 1

\* ---------------------------------------------------------------- C4
\* C4: when non-single walks asked for one package under two different
\* spellings, exactly one of the walks passed the downloadCache guard and
\* downloadPackage was called for the package at most once: exactly once
\* unless the package had a directory, with no update asked, when that walk
\* reached it.
C4_OneFetchForTwoSpellings ==
    \A c \in DOMAIN spellings :
        (phase[1] = "idle" /\ Cardinality(spellings[c]) >= 2 /\ c \notin StdPaths \cup HardPaths)
            => /\ Count(guardPass, c) = 1
               /\ Count(fetchCount, c) <= 1
               /\ Count(skipCount, c) = 0 => Count(fetchCount, c) = 1

\* The last Get walked a second spelling of a package that was fetched once:
\* its walk ended at the guard.
C4_Witness ==
    /\ phase[1] = "idle"
    /\ ~args[1].single
    /\ Events(1, "walk") # {}
    /\ Events(1, "guard") = {}
    /\ \E c \in DOMAIN spellings :
          /\ Cardinality(spellings[c]) >= 2
          /\ args[1].path \in spellings[c]
          /\ Count(fetchCount, c) = 1

\* ---------------------------------------------------------------- C5
\* C5: a Get with single = true calls download once and never for an import:
\* every load and every downloadPackage call is for the root path, with no
\* parent package; it never reaches the hint pass and never calls SetHints.
C5_SingleModeIsolation ==
    \A t \in Threads :
        args[t].single =>
            /\ Len(frames[t]) <= 1
            /\ phase[t] # "hints"
            /\ Events(t, "sethints") = {}
            /\ Events(t, "import") = {}
            /\ \A i \in Events(t, "walk") : log[t][i][2] = args[t].path /\ log[t][i][3] = <<>>
            /\ \A i \in Events(t, "load") :
                  /\ log[t][i][2] \in {args[t].path, Canon(args[t].path)}
                  /\ log[t][i][3] = <<>>
                  /\ log[t][i][4] = Canon(args[t].path)
            /\ \A i \in Events(t, "fetch") : log[t][i][2] = Canon(args[t].path)

\* A single-mode Get returned nil for a package that declares several imports.
C5_Witness ==
    /\ args[1].single
    /\ phase[1] = "idle"
    /\ result[1].kind = "ok"
    /\ Canon(args[1].path) \in DOMAIN packageCache
    /\ Len(packageCache[Canon(args[1].path)].Imports) >= 2

\* ---------------------------------------------------------------- C6
\* C6: every error download returns for an import that names a vendored path
\* is tagged hard, its message names the part of the import after the vendor
\* segment, its ImportStack ends with the import, the import is not walked
\* and the ImportStack of the Get is as it was before the import.
C6_VendorRejectionHard ==
    \A t \in Threads : \A i \in Events(t, "reject") :
        LET path == log[t][i][2]
            err == log[t][i][3]
        IN  /\ err.Hard
            /\ err.Err = <<"must be imported as", SubSeq(path, FindVendor(path).index + 2, Len(path))>>
            /\ Last(err.ImportStack) = path
            /\ Front(err.ImportStack) = stk[t]
            /\ \A j \in Events(t, "walk") : log[t][j][2] # path

\* ---------------------------------------------------------------- C7
\* The non-standard imports of import path c, as the loaded package has them.
LoadedImports(c) ==
    IF c \in DOMAIN packageCache THEN Range(packageCache[c].Imports) \ StdPaths ELSE {}

\* The non-standard import paths reachable from the paths of S in the loaded
\* import graph.
RECURSIVE ReachFrom(_)
ReachFrom(S) ==
    LET N == S \cup UNION {LoadedImports(c) : c \in S}
    IN IF N = S THEN S ELSE ReachFrom(N)

\* The repository url for import path c, as the environment has it.
WorldRepo(c) == RepoURL(<<c[1]>>)

\* The url of the repository of import path c: the one repoPackages records,
\* else the one of the checkout its directory lies in, if there is one.
OwnExpected(c) ==
    IF c \in DOMAIN repoPackages THEN {repoPackages[c].repo}
    ELSE {WorldRepo(c) : d \in {d \in disk : IsPrefix(d, packageCache[c].Dir)}}

\* C7: after a non-single Get that ended with SetHints, the hints have an
\* entry for exactly the non-standard import paths reachable from the root;
\* each entry is the url of the path's own repository (from repoPackages,
\* else from its directory) together with the entries of its non-standard
\* imports; for app -> {da, db -> dc} the entry of app has the urls of the
\* repositories of da, db and dc.
C7_HintsComplete ==
    (phase[1] = "idle" /\ ~args[1].single /\ result[1].kind = "ok" /\ Events(1, "sethints") # {})
        => LET R == ReachFrom({args[1].path}) IN
           /\ DOMAIN hints = R
           /\ R \cap StdPaths = {}
           /\ \A c \in R :
                 hints[c] = OwnExpected(c) \cup UNION {hints[d] : d \in LoadedImports(c)}
           /\ (/\ args[1].path = App
               /\ packageCache[App].Imports = <<DepA, DepB, Fmt>>
               /\ packageCache[DepB].Imports = <<DepC>>)
                  => {WorldRepo(DepA), WorldRepo(DepB), WorldRepo(DepC)} \subseteq hints[App]

\* A non-single Get of app ended with SetHints: the entry of app has the
\* urls of the four repositories and fmt has no entry.
C7_Witness ==
    /\ phase[1] = "idle"
    /\ result[1].kind = "ok"
    /\ ~args[1].single
    /\ args[1].path = App
    /\ Events(1, "sethints") # {}
    /\ Fmt \notin DOMAIN hints
    /\ hints[App] = {WorldRepo(App), WorldRepo(DepA), WorldRepo(DepB), WorldRepo(DepC)}
    /\ hints[DepB] = {WorldRepo(DepB), WorldRepo(DepC), WorldRepo(DepA)}

\* ---------------------------------------------------------------- C8
\* The walk of thread t is about to call downloadPackage for a package whose
\* repository root resolves, without error, to a transport that is not
\* secure, and insecure was not allowed.
AtInsecureFetch(t) ==
    /\ At(t, "fetch")
    /\ ~args[t].insecure
    /\ LET p == Last(frames[t]).p
           rr == IF p.SrcRoot # <<>> THEN vcsFromDir(disk, p.Dir, p.SrcRoot)
                 ELSE repoRootForImportPath(p.ImportPath, args[t].insecure)
       IN rr.err.nil /\ rr.root.repo[1] \notin SecureSchemes

\* C8: a downloadPackage call whose resolved repository root is not secure,
\* with insecure = false, returns the insecure-protocol error, and the call
\* makes no directory, no checkout and no progress notification and leaves
\* the filesystem, repoPackages and downloadRootCache as they were.
C8_SecurityGate ==
    [][AtInsecureFetch(1) =>
          /\ result'[1].kind = "err"
          /\ result'[1].err.Err[1] = "cannot download, uses insecure protocol"
          /\ Events(1, "mkdir")' = {} /\ Events(1, "send")' = {} /\ Events(1, "create")' = {}
          /\ UNCHANGED <<disk, dirs, createCount, sent, repoPackages, downloadRootCache>>
      ]_vars

\* A Get with insecure = false ended with the insecure-protocol error, for a
\* repository that is served over http.
C8_Witness ==
    /\ phase[1] = "idle"
    /\ ~args[1].insecure
    /\ result[1].kind = "err"
    /\ result[1].err.Err[1] = "cannot download, uses insecure protocol"
    /\ \E i \in Events(1, "fetcherr") : log[1][i][2] = Ins
    /\ Ins \notin DOMAIN repoPackages

\* ---------------------------------------------------------------- C9
\* C9: whenever download returns the error of a package it has just loaded
\* (at the first load or at the re-load after a fetch), that error is hard:
\* a package with only a soft error never stops the walk.
C9_OnlyHardErrorAborts ==
    \A t \in Threads : \A i \in Events(t, "loadabort") : log[t][i][3]

\* --------------------------------------------------------------- C10
\* C10 as claimed: WithCancel returns true exactly when the cancellation
\* fired before f completed, and false exactly when f completed first.
C10_TrueIffCancelFirst ==
    \A r \in Runners :
        /\ wcPc[r] = "true" => wcFirst[r] = "cancel"
        /\ wcPc[r] = "false" => wcFirst[r] = "f"

\* C10 amended: WithCancel returns true only if the cancellation had fired
\* when its select ran, and false only if f had completed and finished was
\* closed by then; when just one of the two was so, it returns that one's
\* value.  It does not stop f: after it has returned, f can still take its
\* remaining steps.
C10_ReturnsAReadyCase ==
    \A r \in Runners :
        /\ wcPc[r] = "true" => wcAtSelect[r].done /\ wcDone[r]
        /\ wcPc[r] = "false" => wcAtSelect[r].finished /\ wcF[r] = FSteps
        /\ (wcPc[r] \in {"true", "false"} /\ ~wcAtSelect[r].finished) => wcPc[r] = "true"
        /\ (wcPc[r] \in {"true", "false"} /\ ~wcAtSelect[r].done) => wcPc[r] = "false"
        /\ (wcPc[r] \in {"true", "false"} /\ wcF[r] < FSteps) => ENABLED WithCancelF(r)

\* WithCancel returned true while f was still running, and f has since run to
\* its end and closed finished.
C10_Witness ==
    /\ wcPc[1] = "true"
    /\ ~wcAtSelect[1].finished
    /\ wcFirst[1] = "cancel"
    /\ wcF[1] = FSteps
    /\ wcFinished[1]

\* --------------------------------------------------------------- C11
\* Sequence q has no element twice.
NoRepeat(q) == \A i, j \in 1..Len(q) : i # j => q[i] # q[j]

\* C11: during one Get the hint set of each import path is computed at most
\* once: no path is processed twice by the hint pass, also when it is reached
\* through several ancestors.
C11_HintsMemoized ==
    \A t \in Threads : \A i \in Events(t, "sethints") : NoRepeat(log[t][i][2])

\* --------------------------------------------------------------- C12
\* C12: a Get with single = true whose root is neither standard nor rejected
\* by the loader is never stopped by the downloadCache guard: when it has
\* ended it has reached the fetch decision for its path.
C12_SingleNeverGuarded ==
    \A t \in Threads :
        (/\ args[t].single
         /\ phase[t] = "idle"
         /\ result[t].kind # "none"
         /\ Canon(args[t].path) \notin StdPaths \cup HardPaths)
            => Events(t, "mark") # {}

\* --------------------------------------------------------------- C13
\* The non-single Get of thread t has ended with nil and its root passed the
\* downloadCache guard in this call.
RootWalked(t) ==
    /\ phase[t] = "idle"
    /\ ~args[t].single
    /\ result[t].kind = "ok"
    /\ \E i \in Events(t, "guard") : log[t][i][2] = Canon(args[t].path)

\* C13: no step of a single-mode Get changes downloadCache; a non-single Get
\* of a path that so far only single-mode walks (or none) have passed the
\* guard for passes the guard, and when it returns nil it has walked every
\* import of the package except the pseudo-import "C".
C13_SingleLeavesDownloadCache ==
    [][/\ args'[1].single => downloadCache' = downloadCache
       /\ (/\ At(1, "load") /\ Len(frames[1]) = 1 /\ ~args[1].single
           /\ Canon(args[1].path) \notin StdPaths \cup HardPaths
           /\ Count(guardPass, Canon(args[1].path)) = 0)
              => /\ At(1, "mark")'
                 /\ Count(guardPass', Canon(args[1].path)) = 1
       /\ RootWalked(1)' =>
             \A k \in 1..Len(WorldImports(Canon(args'[1].path))) :
                 LET imp == WorldImports(Canon(args'[1].path))[k] IN
                 imp # PseudoC =>
                     \E j \in Events(1, "import")' :
                         log'[1][j][2] = imp /\ log'[1][j][4] = Canon(args'[1].path)
      ]_vars

\* A non-single Get of app returned nil: app had been fetched before (this
\* call did not fetch it), by a single-mode Get since this call still passed
\* the guard, and this call walked da, db and fmt.
C13_Witness ==
    /\ RootWalked(1)
    /\ args[1].path = App
    /\ \A i \in Events(1, "fetch") : log[1][i][2] # App
    /\ \A imp \in {DepA, DepB, Fmt} :
          \E j \in Events(1, "import") : log[1][j][2] = imp /\ log[1][j][4] = App

\* --------------------------------------------------------------- C14
\* C14: whenever download returns, the ImportStack is what it was when that
\* invocation was entered; the error of a failed fetch carries the stack as
\* it was during the fetch, with the failing path on top; the error of a
\* vendor rejection carries the stack with the rejected import on top; when
\* Get has returned, the stack is empty.
C14_StackBalanced ==
    \A t \in Threads :
        /\ \A i \in Events(t, "return") : log[t][i][3] = log[t][i][4]
        /\ \A i \in Events(t, "fetcherr") :
              /\ i < Len(log[t])
              /\ log[t][i + 1][1] = "return"
              /\ log[t][i + 1][2] = log[t][i][2]
              /\ log[t][i + 1][6].ImportStack = Append(log[t][i + 1][3], log[t][i][2])
        /\ \A i \in Events(t, "reject") :
              /\ i < Len(log[t])
              /\ log[t][i + 1][1] = "return"
              /\ log[t][i][3].ImportStack = Append(log[t][i + 1][3], log[t][i][2])
        /\ (phase[t] = "idle" /\ result[t].kind \in {"ok", "err"}) => stk[t] = <<>>

\* A fetch of an import failed: the error went up through two invocations
\* of download, its snapshot holds the failing path and the stack is empty.
C14_Witness ==
    /\ phase[1] = "idle"
    /\ result[1].kind = "err"
    /\ stk[1] = <<>>
    /\ \E i \in Events(1, "fetcherr") :
          /\ log[1][i][2] # Canon(args[1].path)
          /\ result[1].err.ImportStack = <<log[1][i][2]>>
    /\ Cardinality({i \in Events(1, "return") : ~log[1][i][5]}) >= 2

\* --------------------------------------------------------------- C15
\* C15: the imports of a package are walked in the order of its Imports:
\* when import number i is walked, every import before it has been walked or
\* skipped; and the first error a recursive call returns is the error of
\* every enclosing invocation and of Get, and nothing is loaded, walked or
\* fetched after it.
C15_FirstErrorWins ==
    \A t \in Threads :
        /\ \A j \in Events(t, "import") :
              LET c == log[t][j][4]
                  imps == WorldImports(c)
                  i == log[t][j][5]
              IN  /\ i < Len(imps)
                  /\ imps[i + 1] = log[t][j][2]
                  /\ \A h \in 1..i :
                        \E j2 \in 1..(j - 1) :
                            \/ log[t][j2][1] = "import" /\ log[t][j2][4] = c /\ log[t][j2][5] = h - 1
                            \/ log[t][j2][1] = "skip" /\ log[t][j2][3] = c /\ log[t][j2][2] = imps[h]
                  /\ \A j2 \in Events(t, "import") :
                        (j2 < j /\ log[t][j2][4] = c) => log[t][j2][5] < i
        /\ \A j \in Events(t, "return") :
              ~log[t][j][5] =>
                  /\ phase[t] = "idle"
                  /\ result[t].kind = "err"
                  /\ result[t].err = log[t][j][6]
                  /\ \A j2 \in (j + 1)..Len(log[t]) :
                        log[t][j2][1] = "return" /\ log[t][j2][6] = log[t][j][6]

\* The Get of app ended with the error of its first import da, whose fetch
\* failed: the error went up unchanged and db, the next import, was not walked.
C15_Witness ==
    /\ phase[1] = "idle"
    /\ result[1].kind = "err"
    /\ args[1].path = App
    /\ \E j \in Events(1, "return") : log[1][j][2] = DepA /\ ~log[1][j][5]
    /\ \E j \in Events(1, "return") : log[1][j][2] = App /\ log[1][j][6] = result[1].err
    /\ \A j \in Events(1, "walk") : log[1][j][2] # DepB

\* --------------------------------------------------------------- C16
\* Path k is in its canonical form.
Canonical(k) == Canon(k) = k

\* C16: every key of downloadCache, repoPackages, packageCache and of the
\* hint map is a canonical ImportPath, and the hint pass of Get starts its
\* lookups from the canonical form of the root path.
C16_CanonicalKeys ==
    /\ \A k \in downloadCache : Canonical(k)
    /\ \A k \in DOMAIN repoPackages \cup DOMAIN packageCache \cup DOMAIN hints : Canonical(k)
    /\ \A t \in Threads : \A i \in Events(t, "hintroot") : Canonical(log[t][i][2])

\* --------------------------------------------------------------- C17
\* The path under which import path of package c is walked when it is looked
\* up through the vendor directories of c.
VendoredFrom(c, path) ==
    IF (c \o <<"vendor">> \o path) \in WorldVendored THEN c \o <<"vendor">> \o path ELSE path

\* C17: an import at an index at or beyond the length of the raw declared
\* import list of its package is walked under the path VendoredImportPath
\* gives for it; an import within the raw declared list is walked as it is.
C17_TestImportsRewritten ==
    \A t \in Threads : \A j \in Events(t, "import") :
        LET c == log[t][j][4]
            i == log[t][j][5]
        IN  log[t][j][3] = IF i >= Len(WorldBuildImports(c))
                           THEN VendoredFrom(c, log[t][j][2])
                           ELSE log[t][j][2]

\* --------------------------------------------------------------- C18
\* C18 as claimed: no step removes a key from packageCache, downloadCache,
\* downloadRootCache or repoPackages.
C18_AllCachesAdditive ==
    [][/\ DOMAIN packageCache \subseteq DOMAIN packageCache'
       /\ downloadCache \subseteq downloadCache'
       /\ DOMAIN downloadRootCache \subseteq DOMAIN downloadRootCache'
       /\ DOMAIN repoPackages \subseteq DOMAIN repoPackages'
      ]_vars

\* C18 amended: no step removes a key from downloadCache, downloadRootCache
\* or repoPackages, after failed fetches too; the only key a step removes
\* from packageCache is the path of the package for which downloadPackage
\* has just returned nil, cleared before its re-load, and the re-load that
\* follows puts the key back.
C18_CachesAdditiveButReload ==
    [][/\ downloadCache \subseteq downloadCache'
       /\ DOMAIN downloadRootCache \subseteq DOMAIN downloadRootCache'
       /\ DOMAIN repoPackages \subseteq DOMAIN repoPackages'
       /\ \A k \in DOMAIN packageCache \ DOMAIN packageCache' :
             /\ At(1, "reload")'
             /\ k = Last(frames'[1]).path
             /\ log'[1][Len(log'[1])] = <<"clear", k>>
             /\ \E i \in Events(1, "fetch")' : log'[1][i][2] = k
             /\ \A i \in Events(1, "fetcherr")' : log'[1][i][2] # k
       /\ At(1, "reload") => Last(frames[1]).path \in DOMAIN packageCache'
      ]_vars

\* A Get failed after a package had been fetched and its cache entry
\* cleared: the entry is back and the caches still hold what the failed run
\* put in them.
C18_Witness ==
    /\ phase[1] = "idle"
    /\ result[1].kind = "err"
    /\ \E i \in Events(1, "clear") :
          /\ log[1][i][2] \in DOMAIN packageCache
          /\ log[1][i][2] \in downloadCache
          /\ log[1][i][2] \in DOMAIN repoPackages
    /\ \E j \in Events(1, "fetcherr") :
          /\ log[1][j][2] \in downloadCache
          /\ log[1][j][2] \in DOMAIN repoPackages
          /\ RootDirOf(log[1][j][2]) \in DOMAIN downloadRootCache

\* --------------------------------------------------------------- C19
\* C19: when a non-single Get returns nil, the root package and every
\* non-standard package reachable from it have a checkout on disk.
C19_SuccessMeansCheckedOut ==
    \A t \in Threads :
        (phase[t] = "idle" /\ ~args[t].single /\ result[t].kind = "ok")
            => \A c \in ReachFrom({Canon(args[t].path)}) : OnDisk(world, disk, c)

\* --------------------------------------------------------------- C20
\* C20: once the walk of a non-single Get has returned nil, the hint pass
\* ends normally: when the Get is over it has returned nil after calling
\* SetHints exactly once.
C20_HintPassCompletes ==
    \A t \in Threads :
        (phase[t] = "idle" /\ Events(t, "hintroot") # {})
            => /\ result[t].kind = "ok"
               /\ Cardinality(Events(t, "sethints")) = 1

====
